---- MODULE Spec2Model ----
(***************************************************************************)
(* The execution cycle of src/autotrade.py (the `while True` loop, lines   *)
(* 333-752) together with the ledger writers it calls.                     *)
(*                                                                         *)
(* Numbers are fixed point, exact:                                         *)
(*   prices and balances      integer cents          (PriceScale per USDT) *)
(*   position-size fraction   integer hundredths     (FracScale)           *)
(*   position_size_usdt       cents * hundredths     (PriceScale*FracScale)*)
(*   btc_amount               integer thousandths    (LotScale)            *)
(*   SL / TP percentages      integer thousandths    (PctScale)            *)
(*   raw JSON leverage        integer tenths         (LevScale)            *)
(* The collaborators (exchange, oracle, news feed, sqlite) are the         *)
(* environment: every call either returns a value drawn from a small set   *)
(* or raises.                                                              *)
(***************************************************************************)
EXTENDS Integers, Sequences, FiniteSets, TLC

\* ---------------------------------------------------------------- bounds
MaxIter == 2            \* loop iterations explored
MaxOpenOrders == 1      \* resting orders fetch_open_orders may return
MaxPriorTrades == 21    \* Trade rows in the ledger when LedgerSpec starts

\* ------------------------------------------------------ program constants
MinNotional == 100      \* if position_size_usdt < 100
MinLeverage == 1        \* if leverage < 1
MaxLeverage == 20       \* elif leverage > 20
MinFraction == 10       \* 0.1 in hundredths
MaxFraction == 100      \* 1.0 in hundredths
BalanceCap == 95        \* 0.95 in hundredths
LotScale == 1000        \* math.floor(x * 1000) / 1000
Cooldown == 180         \* time.sleep(180)
PollInterval == 1       \* time.sleep(1)
Backoff == 5            \* time.sleep(5) in the top-level handler
SettleDelay == 5        \* time.sleep(5) after cancelling resting orders
DefaultPct == 5         \* 0.005 in thousandths
DefaultLeverage == 10   \* 1 in tenths
PriceScale == 100       \* round(x, 2)
FracScale == 100
PctScale == 1000
LevScale == 10
RecentTradesLimit == 20     \* SELECT * FROM trades ... LIMIT 20
RecentAnalysisLimit == 10   \* SELECT * FROM ai_analysis ... LIMIT 10

\* ---------------------------------------------------------- JSON values
Num(v) == [tag |-> "num", v |-> v]
Absent == [tag |-> "absent", v |-> 0]
Bad == [tag |-> "bad", v |-> 0]       \* a value float()/int() rejects
Null == [tag |-> "null", v |-> 0]     \* SQL NULL / Python None

\* dict.get(key, default)
Get(field, default) == IF field.tag = "absent" THEN Num(default) ELSE field

\* str.upper() on the direction strings the model uses
Upper(s) ==
    CASE s = "long" -> "LONG"
      [] s = "short" -> "SHORT"
      [] s = "no_position" -> "NO_POSITION"
      [] s = "hold" -> "HOLD"
      [] OTHER -> s

\* int(x) of a number given in tenths: truncation toward zero
IntTrunc(x) == IF x >= 0 THEN x \div LevScale ELSE -((-x) \div LevScale)

\* round(base + n/d, 0) for d > 0, ties to even (Python's round)
RoundHalfEven(base, n, d) ==
    LET q == base + (n \div d)
        r == n % d
    IN  IF 2 * r < d THEN q
        ELSE IF 2 * r > d THEN q + 1
        ELSE IF q % 2 = 0 THEN q ELSE q + 1

Abs(x) == IF x < 0 THEN -x ELSE x

RECURSIVE GCD(_, _)
GCD(a, b) == IF b = 0 THEN a ELSE GCD(b, a % b)

\* Ratio with the operands exchanged: sl_percentage / tp_percentage
RatioInverted(tp, sl) ==
    LET g == GCD(Abs(tp), Abs(sl))
        s == IF tp < 0 THEN -1 ELSE 1
    IN  [num |-> s * (sl \div g), den |-> s * (tp \div g)]

\* tp_percentage / sl_percentage as a reduced fraction, sl # 0
Ratio(tp, sl) ==
    LET g == GCD(Abs(tp), Abs(sl))
        s == IF sl < 0 THEN -1 ELSE 1
    IN  [num |-> s * (tp \div g), den |-> s * (sl \div g)]

\* ----------------------------------------------------- validator / sizer
\* IsNoTrade without the `or position_size_fraction <= 0` operand
IsNoTradeDirectionOnly(d, f) == d = "NO_POSITION"

\* if direction == "NO_POSITION" or position_size_fraction <= 0
IsNoTrade(d, f) == d = "NO_POSITION" \/ f <= 0

\* ClampFraction without the `if position_size_fraction < 0.1` branch
ClampFractionNoFloor(f) == IF f > MaxFraction THEN MaxFraction ELSE f

\* ClampFraction without the `elif position_size_fraction > 1.0` branch
ClampFractionNoCeiling(f) == IF f < MinFraction THEN MinFraction ELSE f

ClampFraction(f) ==
    IF f < MinFraction THEN MinFraction
    ELSE IF f > MaxFraction THEN MaxFraction
    ELSE f

\* ClampLeverage without the `elif leverage > 20` branch
ClampLeverageNoCeiling(l) == IF l < MinLeverage THEN MinLeverage ELSE l

ClampLeverage(l) ==
    IF l < MinLeverage THEN MinLeverage
    ELSE IF l > MaxLeverage THEN MaxLeverage
    ELSE l

\* available_balance * position_size_fraction
PositionSize(balance, f) == balance * f

\* BelowMinimum with `<=` for `<`
BelowMinimumInclusive(size) == size <= MinNotional * PriceScale * FracScale

\* if position_size_usdt < 100
BelowMinimum(size) == size < MinNotional * PriceScale * FracScale

\* if position_size_usdt > available_balance: available_balance * 0.95
CapToBalance(size, balance) ==
    IF size > balance * FracScale THEN balance * BalanceCap ELSE size

\* BtcAmount with round() for math.floor()
BtcAmountRounded(size, price) ==
    (2 * size * (LotScale \div FracScale) + price) \div (2 * price)

\* math.floor((position_size_usdt / current_price) * 1000) / 1000
\* (LotScale is a multiple of FracScale)
BtcAmount(size, price) == (size * (LotScale \div FracScale)) \div price

\* StopLossPrice with the LONG branch's sign in the SHORT branch
StopLossPriceBelowEntry(d, entry, pct) ==
    RoundHalfEven(entry, entry * (-pct), PctScale)

\* round(entry_price * (1 -/+ pct), 2), as entry + entry * (-/+ pct)
StopLossPrice(d, entry, pct) ==
    IF d = "LONG" THEN RoundHalfEven(entry, entry * (-pct), PctScale)
    ELSE RoundHalfEven(entry, entry * pct, PctScale)

TakeProfitPrice(d, entry, pct) ==
    IF d = "LONG" THEN RoundHalfEven(entry, entry * pct, PctScale)
    ELSE RoundHalfEven(entry, entry * (-pct), PctScale)

\* create_market_buy_order for LONG, create_market_sell_order for SHORT
EntrySide(d) == IF d = "LONG" THEN "buy" ELSE "sell"

\* ExitSide with the exit orders on the side of the entry order
ExitSideOfEntry(d) == IF d = "LONG" THEN "buy" ELSE "sell"

\* the side of the STOP_MARKET and TAKE_PROFIT_MARKET orders
ExitSide(d) == IF d = "LONG" THEN "sell" ELSE "buy"

\* ------------------------------------------------------- position check
\* the for loop over fetch_positions: the signed positionAmt of the last
\* entry on 'BTC/USDT:USDT' that is not zero, 0 when there is none
RECURSIVE PositionAmt(_)
PositionAmt(positions) ==
    IF positions = <<>> THEN 0
    ELSE LET p == positions[Len(positions)]
             rest == SubSeq(positions, 1, Len(positions) - 1)
         IN  IF p.symbol = "BTC/USDT:USDT" /\ p.amt # 0 THEN p.amt
             ELSE PositionAmt(rest)

\* CurrentSide without the `elif amt < 0` branch
CurrentSideLongOnly(positions) ==
    IF PositionAmt(positions) > 0 THEN "long" ELSE "none"

\* current_side; None is modelled as "none"
CurrentSide(positions) ==
    IF PositionAmt(positions) > 0 THEN "long"
    ELSE IF PositionAmt(positions) < 0 THEN "short"
    ELSE "none"

\* line 358, `if current_side:` -- a position on the symbol skips the
\* analysis of this iteration
SkipAnalysisNever(side) == FALSE

SkipAnalysis(side) == side # "none"

\* -------------------------------------------------------- error handling
\* every exception class the steps of the loop can raise
Errors == {"NetworkError", "APIError", "OperationalError", "JSONDecodeError",
           "AttributeError", "ValueError", "TypeError", "ZeroDivisionError"}

\* the parsing block without its except clause
CaughtInlineNever(e) == FALSE

\* `except json.JSONDecodeError` around the parsing block
CaughtInline(e) == e = "JSONDecodeError"

\* a handler for the exchange's errors only
CatchesNetworkOnly(e) == e = "NetworkError"

\* `except Exception` around the loop body
Catches(e) == e \in Errors

\* ------------------------------------------------------------ the inputs
\* exchange.fetch_ticker(symbol)['last'], in cents
Prices == {5000000}

\* balance['USDT']['free'], in cents: 999.90 and 1000.00
Balances == {99990, 100000}

Pos(sym, amt) == [symbol |-> sym, amt |-> amt]

\* exchange.fetch_positions([symbol]); positionAmt in thousandths of a BTC
PositionLists ==
    { <<>>,
      <<Pos("BTC/USDT:USDT", 0)>>,
      <<Pos("BTC/USDT:USDT", 2)>>,
      <<Pos("BTC/USDT:USDT", -2)>>,
      <<Pos("ETH/USDT:USDT", 2)>>,
      <<Pos("BTC/USDT:USDT", -2), Pos("BTC/USDT:USDT", 0)>> }

Timeframes == {"15m", "1h", "4h"}

\* what fetch_multi_timeframe_data may collect: per timeframe the fetch
\* failed (no entry), returned no candle, or returned candles.  The loop
\* over the timeframes treats the three alike, so one dictionary stands for
\* all that have the same outcomes in another order.
OutcomeRank(o) == CASE o = "failed" -> 0 [] o = "empty" -> 1 [] o = "rows" -> 2

TimeframeData ==
    {d \in [Timeframes -> {"failed", "empty", "rows"}] :
        /\ OutcomeRank(d["15m"]) <= OutcomeRank(d["1h"])
        /\ OutcomeRank(d["1h"]) <= OutcomeRank(d["4h"])}

Text(k, fence) ==
    [kind |-> k, fence |-> fence, direction |-> "ABSENT", size |-> Absent,
     leverage |-> Absent, sl |-> Absent, tp |-> Absent]

Obj(fence, d, size, lev, sl, tp) ==
    [kind |-> "object", fence |-> fence, direction |-> d, size |-> size,
     leverage |-> lev, sl |-> sl, tp |-> tp]

\* response.choices[0].message.content: what the oracle may answer.
\* kind "text" is not JSON, kind "scalar" is JSON but not an object;
\* direction "ABSENT" is a missing key, "NULL" a JSON null.
Responses ==
    { Text("text", "none"),
      Text("scalar", "none"),
      Obj("none", "ABSENT", Num(50), Absent, Absent, Absent),
      Obj("none", "LONG", Num(50), Num(50), Num(10), Num(20)),
      Obj("none", "SHORT", Num(50), Num(50), Num(10), Num(20)),
      Obj("json", "long", Num(5), Num(250), Num(10), Num(20)),
      Obj("plain", "SHORT", Num(150), Num(-37), Num(20), Num(10)),
      Obj("none", "LONG", Num(0), Num(50), Num(10), Num(20)),
      Obj("none", "HOLD", Num(50), Num(50), Num(10), Num(20)),
      Obj("none", "LONG", Num(50), Num(50), Num(0), Num(20)),
      Obj("none", "LONG", Num(50), Bad, Num(10), Num(20)) }

\* the two code-fence branches: the text between the fence markers
StripFence(r) == [r EXCEPT !.fence = "none"]

\* json.loads and the six field conversions: the first exception raised,
\* "none" when the block runs to its end
ParseError(r) ==
    IF r.kind = "text" THEN "JSONDecodeError"
    ELSE IF r.kind = "scalar" THEN "AttributeError"
    ELSE IF r.direction = "NULL" THEN "AttributeError"
    ELSE IF Get(r.size, 0).tag = "bad" THEN "ValueError"
    ELSE IF Get(r.leverage, DefaultLeverage).tag = "bad" THEN "ValueError"
    ELSE IF Get(r.sl, DefaultPct).tag = "bad" THEN "ValueError"
    ELSE IF Get(r.tp, DefaultPct).tag = "bad" THEN "ValueError"
    ELSE "none"

ParsedDirection(r) ==
    Upper(IF r.direction = "ABSENT" THEN "NO_POSITION" ELSE r.direction)

\* -------------------------------------------------------------- the state
VARIABLES
    pc,                     \* the statement the loop is at
    iter,                   \* iterations started
    current_timestamp,      \* datetime.now().isoformat(), a logical clock
    current_price,
    available_balance,
    current_side,
    amount,
    position_amts,          \* nonzero positionAmt values fetch_positions showed
    open_orders,            \* resting orders fetch_open_orders returned
    cancelled,              \* cancel_order calls that returned
    cancel_error,           \* the cancelling block raised
    multi_tf_data,          \* timeframe -> "failed" | "empty" | "rows"
    news_headlines,         \* number of headlines
    historical_performance, \* what get_historical_performance() returned
    ai_response_text,
    direction,
    position_size_fraction,
    leverage,
    sl_percentage,
    tp_percentage,
    position_size_usdt,
    btc_amount,
    sl_price,
    tp_price,
    trades,                 \* table trades
    ai_analysis,            \* table ai_analysis
    calls,                  \* set_leverage and order calls of this iteration
    oracle_calls,           \* oracle completions returned, this iteration
    sleeps,                 \* time.sleep arguments of this iteration
    visited,                \* statements executed in this iteration
    err                     \* exception raised in this iteration, or "none"

market == <<current_price, available_balance, current_side, amount,
            position_amts>>
snapshot == <<open_orders, cancelled, cancel_error, multi_tf_data,
              news_headlines, historical_performance>>
decision == <<ai_response_text, direction, position_size_fraction, leverage,
              sl_percentage, tp_percentage>>
plan == <<position_size_usdt, btc_amount, sl_price, tp_price>>
ledger == <<trades, ai_analysis>>
clock == <<iter, current_timestamp>>
history == <<calls, oracle_calls, sleeps>>

vars == <<pc, clock, market, snapshot, decision, plan, ledger, history,
          visited, err>>

NoData == [tf \in Timeframes |-> "failed"]
NoResponse == Text("none", "none")
NoPerformance ==
    [recent_trades |-> <<>>, recent_analysis |-> <<>>,
     statistics |-> [k \in {} |-> 0]]

Init ==
    /\ pc = "FetchTicker"
    /\ iter = 0
    /\ current_timestamp = 0
    /\ current_price = 0
    /\ available_balance = 0
    /\ current_side = "none"
    /\ amount = 0
    /\ position_amts = {}
    /\ open_orders = 0
    /\ cancelled = 0
    /\ cancel_error = FALSE
    /\ multi_tf_data = NoData
    /\ news_headlines = 0
    /\ historical_performance = NoPerformance
    /\ ai_response_text = NoResponse
    /\ direction = ""
    /\ position_size_fraction = 0
    /\ leverage = 0
    /\ sl_percentage = 0
    /\ tp_percentage = 0
    /\ position_size_usdt = 0
    /\ btc_amount = 0
    /\ sl_price = 0
    /\ tp_price = 0
    /\ trades = <<>>
    /\ ai_analysis = <<>>
    /\ calls = <<>>
    /\ oracle_calls = 0
    /\ sleeps = <<>>
    /\ visited = {}
    /\ err = "none"

\* an exception leaves the try block: the handler, or the end of the process
Throw(e) ==
    /\ pc' = IF Catches(e) THEN "Except" ELSE "Exited"
    /\ err' = e

Step(next) ==
    /\ pc' = next
    /\ UNCHANGED err

Visit == visited' = visited \cup {pc}

\* ------------------------------------------------------------ the ledger
\* save_trade_to_db without conn.commit(): the row does not reach the table
save_trade_uncommitted(table, trade_data) == table

\* INSERT INTO trades: id is AUTOINCREMENT, status is 'OPEN', the exit
\* columns are not in the column list and stay NULL
save_trade_to_db(table, trade_data) ==
    Append(table,
        [id |-> Len(table) + 1,
         timestamp |-> trade_data.timestamp,
         direction |-> trade_data.direction,
         entry_price |-> trade_data.entry_price,
         position_size_usdt |-> trade_data.position_size_usdt,
         btc_amount |-> trade_data.btc_amount,
         leverage |-> trade_data.leverage,
         stop_loss_price |-> trade_data.stop_loss_price,
         stop_loss_percentage |-> trade_data.stop_loss_percentage,
         take_profit_price |-> trade_data.take_profit_price,
         take_profit_percentage |-> trade_data.take_profit_percentage,
         risk_reward_ratio |-> trade_data.risk_reward_ratio,
         available_balance |-> trade_data.available_balance,
         conviction_level |-> trade_data.conviction_level,
         reasoning |-> trade_data.reasoning,
         status |-> "OPEN",
         exit_price |-> Null,
         exit_timestamp |-> Null,
         profit_loss |-> Null,
         profit_loss_percentage |-> Null])

\* save_ai_analysis_to_db as INSERT OR REPLACE on a fixed id
save_ai_analysis_replacing(table, analysis_data) ==
    <<[id |-> 1] @@ analysis_data>>

\* INSERT INTO ai_analysis
save_ai_analysis_to_db(table, analysis_data) ==
    Append(table, [id |-> Len(table) + 1] @@ analysis_data)

\* ORDER BY timestamp ASC: OrderByTimestampDesc without DESC
RECURSIVE OrderByTimestampAsc(_, _)
OrderByTimestampAsc(table, rowids) ==
    IF rowids = {} THEN <<>>
    ELSE LET i == CHOOSE j \in rowids :
                    \A k \in rowids :
                        table[j].timestamp <= table[k].timestamp
         IN  <<table[i]>> \o OrderByTimestampAsc(table, rowids \ {i})

\* ORDER BY timestamp DESC over the rows with the given rowids
RECURSIVE OrderByTimestampDesc(_, _)
OrderByTimestampDesc(table, rowids) ==
    IF rowids = {} THEN <<>>
    ELSE LET i == CHOOSE j \in rowids :
                    \A k \in rowids :
                        table[k].timestamp <= table[j].timestamp
         IN  <<table[i]>> \o OrderByTimestampDesc(table, rowids \ {i})

\* LIMIT n
Limit(rows, n) == SubSeq(rows, 1, IF Len(rows) < n THEN Len(rows) ELSE n)

\* the sum of a numeric column, and of the risk_reward_ratio column
RECURSIVE SumOf(_, _)
SumOf(rows, col) ==
    IF rows = <<>> THEN 0 ELSE rows[1][col] + SumOf(Tail(rows), col)

RECURSIVE SumOfRatios(_)
SumOfRatios(rows) ==
    IF rows = <<>> THEN [num |-> 0, den |-> 1]
    ELSE LET a == rows[1].risk_reward_ratio
             b == SumOfRatios(Tail(rows))
         IN  Ratio(a.num * b.den + b.num * a.den, a.den * b.den)

\* the stats dict: {} without trades; the means are round(mean, 2), the
\* leverage and the ratio in hundredths, the position size in cents
Statistics(rows) ==
    IF rows = <<>> THEN [k \in {} |-> 0]
    ELSE LET n == Len(rows)
             rr == SumOfRatios(rows)
         IN  [total_trades |-> n,
              direction_distribution |->
                  [d \in {rows[i].direction : i \in DOMAIN rows} |->
                      Cardinality({i \in DOMAIN rows :
                                      rows[i].direction = d})],
              avg_leverage |->
                  RoundHalfEven(0, SumOf(rows, "leverage") * 100, n),
              avg_risk_reward |->
                  RoundHalfEven(0, rr.num * 100, rr.den * n),
              avg_position_size |->
                  RoundHalfEven(0, SumOf(rows, "position_size_usdt"),
                                n * FracScale)]

\* lines 169-217
get_historical_performance(trades_table, analysis_table) ==
    LET recent_trades ==
            Limit(OrderByTimestampDesc(trades_table, DOMAIN trades_table),
                  RecentTradesLimit)
        recent_analysis ==
            Limit(OrderByTimestampDesc(analysis_table,
                                       DOMAIN analysis_table),
                  RecentAnalysisLimit)
    IN  [recent_trades |-> recent_trades,
         recent_analysis |-> recent_analysis,
         statistics |-> Statistics(recent_trades)]

\* the dict of the three full analysis records (NO_TRADE, BELOW_MINIMUM,
\* TRADE_EXECUTED); fraction and lev are the values of the locals at the call
AnalysisData(fraction, lev, action, condition) ==
    [timestamp |-> current_timestamp,
     current_price |-> current_price,
     available_balance |-> available_balance,
     direction |-> direction,
     position_size_fraction |-> Num(fraction),
     recommended_leverage |-> Num(lev),
     stop_loss_percentage |-> Num(sl_percentage),
     take_profit_percentage |-> Num(tp_percentage),
     reasoning |-> "reasoning",
     action_taken |-> action,
     market_condition |-> condition]

\* the dict written by the JSONDecodeError handler: the optional keys are
\* missing, so .get() stores NULL
SkippedData ==
    [timestamp |-> current_timestamp,
     current_price |-> current_price,
     available_balance |-> available_balance,
     direction |-> "ERROR",
     position_size_fraction |-> Null,
     recommended_leverage |-> Null,
     stop_loss_percentage |-> Null,
     take_profit_percentage |-> Null,
     reasoning |-> "JSON Parse Error",
     action_taken |-> "SKIPPED",
     market_condition |-> ""]

\* trade_data of the LONG and SHORT branches
TradeData ==
    [timestamp |-> current_timestamp,
     direction |-> direction,
     entry_price |-> current_price,
     position_size_usdt |-> position_size_usdt,
     btc_amount |-> btc_amount,
     leverage |-> leverage,
     stop_loss_price |-> sl_price,
     stop_loss_percentage |-> sl_percentage,
     take_profit_price |-> tp_price,
     take_profit_percentage |-> tp_percentage,
     risk_reward_ratio |-> Ratio(tp_percentage, sl_percentage),
     available_balance |-> available_balance,
     conviction_level |-> position_size_fraction,
     reasoning |-> "reasoning"]

\* ------------------------------------------------------------- the waits
\* SleepCooldown with the poll interval for the cool-down
SleepPollInterval(log) == Append(log, PollInterval)

\* time.sleep(180) after an analysis outcome
SleepCooldown(log) == Append(log, Cooldown)

\* ------------------------------------------------------ exchange requests
Call(op, side, qty, stop, lev) ==
    [op |-> op, side |-> side, qty |-> qty, stopPrice |-> stop,
     leverage |-> lev]

\* ------------------------------------------------------------ the actions
\* lines 333-338: a new iteration starts; timestamp, then the last price.
\* Every local is assigned again before it is read, so the model clears them.
FetchTicker ==
    /\ pc = "FetchTicker"
    /\ iter < MaxIter
    /\ iter' = iter + 1
    /\ current_timestamp' = current_timestamp + 1
    /\ visited' = {pc}
    /\ calls' = <<>>
    /\ oracle_calls' = 0
    /\ sleeps' = <<>>
    /\ current_side' = "none"
    /\ amount' = 0
    /\ position_amts' = {}
    /\ available_balance' = 0
    /\ open_orders' = 0
    /\ cancelled' = 0
    /\ cancel_error' = FALSE
    /\ multi_tf_data' = NoData
    /\ news_headlines' = 0
    /\ historical_performance' = NoPerformance
    /\ ai_response_text' = NoResponse
    /\ direction' = ""
    /\ position_size_fraction' = 0
    /\ leverage' = 0
    /\ sl_percentage' = 0
    /\ tp_percentage' = 0
    /\ position_size_usdt' = 0
    /\ btc_amount' = 0
    /\ sl_price' = 0
    /\ tp_price' = 0
    /\ \/ /\ current_price' \in Prices
          /\ pc' = "GetAvailableBalance"
          /\ err' = "none"
       \/ /\ current_price' = 0
          /\ Throw("NetworkError")
    /\ UNCHANGED ledger

\* get_available_balance, lines 250-258: the except branch returns 0
get_available_balance ==
    /\ pc = "GetAvailableBalance"
    /\ \/ /\ available_balance' \in Balances
          /\ visited' = visited \cup {pc}
       \/ /\ available_balance' = 0
          /\ visited' = visited \cup {pc, "get_available_balance.except"}
    /\ Step("FetchPositions")
    /\ UNCHANGED <<clock, current_price, current_side, amount, position_amts,
                   snapshot, decision, plan, ledger, history>>

\* lines 344-360: CheckPosition
FetchPositions ==
    /\ pc = "FetchPositions"
    /\ Visit
    /\ \/ /\ Throw("NetworkError")
          /\ UNCHANGED <<current_side, amount, position_amts>>
       \/ \E positions \in PositionLists :
            /\ current_side' = CurrentSide(positions)
            /\ amount' = Abs(PositionAmt(positions))
            /\ position_amts' =
                  {positions[i].amt : i \in
                     {j \in DOMAIN positions :
                        /\ positions[j].symbol = "BTC/USDT:USDT"
                        /\ positions[j].amt # 0}}
            /\ Step(IF SkipAnalysis(CurrentSide(positions))
                    THEN "PollWait" ELSE "CancelStaleOrders")
    /\ UNCHANGED <<clock, current_price, available_balance, snapshot,
                   decision, plan, ledger, history>>

\* lines 361-373: cancel the resting orders, best effort, then sleep(5).
\* n orders are resting and k cancel_order calls return; k < n when the
\* next one raises, and a failed fetch_open_orders cancels nothing.
CancelStaleOrders ==
    /\ pc = "CancelStaleOrders"
    /\ Visit
    /\ \/ /\ open_orders' = 0
          /\ cancelled' = 0
          /\ cancel_error' = TRUE
       \/ \E n \in 0..MaxOpenOrders : \E k \in 0..n :
            /\ open_orders' = n
            /\ cancelled' = k
            /\ cancel_error' = (k < n)
    /\ sleeps' = Append(sleeps, SettleDelay)
    /\ Step("BuildSnapshot")
    /\ UNCHANGED <<clock, market, multi_tf_data, news_headlines,
                   historical_performance, decision,
                   plan, ledger, calls, oracle_calls>>

\* lines 377-395: candles per timeframe and headlines never raise; reading
\* the ledger in get_historical_performance can.  The outcome of the
\* cancelling block is not read again, so the model clears it; an aborted
\* iteration drops what it collected.
BuildSnapshot ==
    /\ pc = "BuildSnapshot"
    /\ Visit
    /\ open_orders' = 0
    /\ cancelled' = 0
    /\ cancel_error' = FALSE
    /\ \/ /\ multi_tf_data' = NoData
          /\ news_headlines' = 0
          /\ historical_performance' = NoPerformance
          /\ Throw("OperationalError")
       \/ \E read \in {get_historical_performance(trades, ai_analysis)} :
            /\ historical_performance' = read
            /\ multi_tf_data' \in TimeframeData
            /\ news_headlines' \in {0, 10}
            /\ Step("Decide")
    /\ UNCHANGED <<clock, market, decision, plan, ledger, history>>

\* lines 398-496: json.dumps(market_analysis), then the oracle call.
\* A timeframe with candles puts pandas Timestamp objects (line 272) into
\* market_analysis (line 395), which json.dumps (line 491) rejects.
\* The snapshot is not read after the request, so the model clears it.
Decide ==
    /\ pc = "Decide"
    /\ Visit
    /\ multi_tf_data' = NoData
    /\ news_headlines' = 0
    /\ historical_performance' = NoPerformance
    /\ IF \E tf \in Timeframes : multi_tf_data[tf] = "rows"
       THEN /\ Throw("TypeError")
            /\ UNCHANGED <<ai_response_text, oracle_calls>>
       ELSE \/ /\ Throw("APIError")
               /\ UNCHANGED <<ai_response_text, oracle_calls>>
            \/ /\ ai_response_text' \in Responses
               /\ oracle_calls' = oracle_calls + 1
               /\ Step("Parse")
    /\ UNCHANGED <<clock, market, open_orders, cancelled, cancel_error,
                   direction, position_size_fraction, leverage,
                   sl_percentage, tp_percentage, plan, ledger, calls, sleeps>>

\* lines 498-531: strip the code fence, json.loads, convert the fields
Parse ==
    /\ pc = "Parse"
    /\ Visit
    /\ LET r == StripFence(ai_response_text)
           e == ParseError(r)
       IN  IF e = "none"
           THEN /\ direction' = ParsedDirection(r)
                /\ position_size_fraction' = Get(r.size, 0).v
                /\ leverage' = IntTrunc(Get(r.leverage, DefaultLeverage).v)
                /\ sl_percentage' = Get(r.sl, DefaultPct).v
                /\ tp_percentage' = Get(r.tp, DefaultPct).v
                /\ Step("Validate")
           ELSE /\ UNCHANGED <<direction, position_size_fraction, leverage,
                               sl_percentage, tp_percentage>>
                /\ IF CaughtInline(e) THEN Step("SaveSkipped") ELSE Throw(e)
    /\ UNCHANGED <<clock, market, snapshot, ai_response_text, plan, ledger,
                   history>>

\* lines 546-614: the validator and order sizer
Validate ==
    /\ pc = "Validate"
    /\ Visit
    /\ IF IsNoTrade(direction, position_size_fraction)
       THEN /\ Step("SaveNoTrade")
            /\ UNCHANGED <<position_size_fraction, leverage, plan>>
       ELSE LET f == ClampFraction(position_size_fraction)
                size == PositionSize(available_balance, f)
            IN  /\ position_size_fraction' = f
                /\ leverage' = ClampLeverage(leverage)
                /\ IF BelowMinimum(size)
                   THEN /\ position_size_usdt' = size
                        /\ btc_amount' = btc_amount
                        /\ Step("SaveBelowMinimum")
                   ELSE /\ position_size_usdt' =
                              CapToBalance(size, available_balance)
                        /\ btc_amount' =
                              BtcAmount(CapToBalance(size, available_balance),
                                        current_price)
                        /\ Step("SetLeverage")
                /\ UNCHANGED <<sl_price, tp_price>>
    /\ UNCHANGED <<clock, market, snapshot, ai_response_text, direction,
                   sl_percentage, tp_percentage, ledger, history>>

\* lines 520-527: the SKIPPED record of the JSONDecodeError handler
SaveSkipped ==
    /\ pc = "SaveSkipped"
    /\ Visit
    /\ \/ /\ Throw("OperationalError")
          /\ UNCHANGED ai_analysis
       \/ /\ ai_analysis' = save_ai_analysis_to_db(ai_analysis, SkippedData)
          /\ Step("CooldownContinue")
    /\ UNCHANGED <<clock, market, snapshot, decision, plan, trades, history>>

\* lines 551-563: the NO_TRADE record
SaveNoTrade ==
    /\ pc = "SaveNoTrade"
    /\ Visit
    /\ \/ /\ Throw("OperationalError")
          /\ UNCHANGED ai_analysis
       \/ /\ ai_analysis' = save_ai_analysis_to_db(ai_analysis,
                AnalysisData(position_size_fraction, leverage, "NO_TRADE",
                             "Learning from past"))
          /\ Step("CooldownContinue")
    /\ UNCHANGED <<clock, market, snapshot, decision, plan, trades, history>>

\* lines 589-601: the BELOW_MINIMUM record
SaveBelowMinimum ==
    /\ pc = "SaveBelowMinimum"
    /\ Visit
    /\ \/ /\ Throw("OperationalError")
          /\ UNCHANGED ai_analysis
       \/ /\ ai_analysis' = save_ai_analysis_to_db(ai_analysis,
                AnalysisData(position_size_fraction, leverage,
                             "BELOW_MINIMUM", "Position too small"))
          /\ Step("CooldownContinue")
    /\ UNCHANGED <<clock, market, snapshot, decision, plan, trades, history>>

\* lines 530-531, 566-567, 604-605: time.sleep(180); continue
CooldownContinue ==
    /\ pc = "CooldownContinue"
    /\ Visit
    /\ sleeps' = SleepCooldown(sleeps)
    /\ Step("FetchTicker")
    /\ UNCHANGED <<clock, market, snapshot, decision, plan, ledger, calls,
                   oracle_calls>>

\* lines 624-626: exchange.set_leverage(leverage, symbol)
SetLeverage ==
    /\ pc = "SetLeverage"
    /\ Visit
    /\ \/ /\ Throw("NetworkError")
          /\ UNCHANGED calls
       \/ /\ calls' = Append(calls, Call("set_leverage", "", 0, 0, leverage))
          /\ Step(IF direction \in {"LONG", "SHORT"}
                  THEN "MarketOrder" ELSE "PrintStatistics")
    /\ UNCHANGED <<clock, market, snapshot, decision, plan, ledger,
                   oracle_calls, sleeps>>

\* lines 629-633 and 684-688: the market entry order, then the exit prices
MarketOrder ==
    /\ pc = "MarketOrder"
    /\ Visit
    /\ \/ /\ Throw("NetworkError")
          /\ UNCHANGED <<calls, sl_price, tp_price>>
       \/ /\ calls' = Append(calls,
                Call("MARKET", EntrySide(direction), btc_amount, 0, 0))
          /\ sl_price' = StopLossPrice(direction, current_price, sl_percentage)
          /\ tp_price' = TakeProfitPrice(direction, current_price,
                                         tp_percentage)
          /\ Step("StopOrder")
    /\ UNCHANGED <<clock, market, snapshot, decision, position_size_usdt,
                   btc_amount, ledger, oracle_calls, sleeps>>

\* lines 636 and 691: the STOP_MARKET order
StopOrder ==
    /\ pc = "StopOrder"
    /\ Visit
    /\ \/ /\ Throw("NetworkError")
          /\ UNCHANGED calls
       \/ /\ calls' = Append(calls,
                Call("STOP_MARKET", ExitSide(direction), btc_amount,
                     sl_price, 0))
          /\ Step("TakeProfitOrder")
    /\ UNCHANGED <<clock, market, snapshot, decision, plan, ledger,
                   oracle_calls, sleeps>>

\* lines 637 and 692: the TAKE_PROFIT_MARKET order
TakeProfitOrder ==
    /\ pc = "TakeProfitOrder"
    /\ Visit
    /\ \/ /\ Throw("NetworkError")
          /\ UNCHANGED calls
       \/ /\ calls' = Append(calls,
                Call("TAKE_PROFIT_MARKET", ExitSide(direction), btc_amount,
                     tp_price, 0))
          /\ Step("SaveTrade")
    /\ UNCHANGED <<clock, market, snapshot, decision, plan, ledger,
                   oracle_calls, sleeps>>

\* lines 639-667 and 694-722: the banner divides tp_percentage by
\* sl_percentage (lines 647, 702) before trade_data is built and saved
SaveTrade ==
    /\ pc = "SaveTrade"
    /\ Visit
    /\ IF sl_percentage = 0
       THEN /\ Throw("ZeroDivisionError")
            /\ UNCHANGED trades
       ELSE \/ /\ Throw("OperationalError")
               /\ UNCHANGED trades
            \/ /\ trades' = save_trade_to_db(trades, TradeData)
               /\ Step("SaveExecuted")
    /\ UNCHANGED <<clock, market, snapshot, decision, plan, ai_analysis,
                   history>>

\* lines 670-682 and 725-737: the TRADE_EXECUTED record
SaveExecuted ==
    /\ pc = "SaveExecuted"
    /\ Visit
    /\ \/ /\ Throw("OperationalError")
          /\ UNCHANGED ai_analysis
       \/ /\ ai_analysis' = save_ai_analysis_to_db(ai_analysis,
                AnalysisData(position_size_fraction, leverage,
                             "TRADE_EXECUTED", "Learned confidence"))
          /\ Step("PrintStatistics")
    /\ UNCHANGED <<clock, market, snapshot, decision, plan, trades, history>>

\* line 740: print_trade_statistics reads the ledger
PrintStatistics ==
    /\ pc = "PrintStatistics"
    /\ Visit
    /\ \/ Throw("OperationalError")
       \/ Step("CooldownTrade")
    /\ UNCHANGED <<clock, market, snapshot, decision, plan, ledger, history>>

\* line 744: time.sleep(180), falling through to line 746
CooldownTrade ==
    /\ pc = "CooldownTrade"
    /\ Visit
    /\ sleeps' = SleepCooldown(sleeps)
    /\ Step("PollWait")
    /\ UNCHANGED <<clock, market, snapshot, decision, plan, ledger, calls,
                   oracle_calls>>

\* line 746: time.sleep(1), then the next iteration
PollWait ==
    /\ pc = "PollWait"
    /\ Visit
    /\ sleeps' = Append(sleeps, PollInterval)
    /\ Step("FetchTicker")
    /\ UNCHANGED <<clock, market, snapshot, decision, plan, ledger, calls,
                   oracle_calls>>

\* lines 748-752: the top-level handler, then the next iteration
Except ==
    /\ pc = "Except"
    /\ Visit
    /\ sleeps' = Append(sleeps, Backoff)
    /\ Step("FetchTicker")
    /\ UNCHANGED <<clock, market, snapshot, decision, plan, ledger, calls,
                   oracle_calls>>

Next ==
    \/ FetchTicker
    \/ get_available_balance
    \/ FetchPositions
    \/ CancelStaleOrders
    \/ BuildSnapshot
    \/ Decide
    \/ Parse
    \/ Validate
    \/ SaveSkipped
    \/ SaveNoTrade
    \/ SaveBelowMinimum
    \/ CooldownContinue
    \/ SetLeverage
    \/ MarketOrder
    \/ StopOrder
    \/ TakeProfitOrder
    \/ SaveTrade
    \/ SaveExecuted
    \/ PrintStatistics
    \/ CooldownTrade
    \/ PollWait
    \/ Except

Spec == Init /\ [][Next]_vars

\* every call returns or raises, and a sleep ends: the loop keeps stepping
LiveSpec == Spec /\ WF_vars(Next)

\* ------------------------------------------- the sizer on a wider input
\* The validator, the sizer and the order placement are functions of the
\* price, the balance and the oracle's answer.  SizerSpec starts where the
\* answer of the first iteration has just been received, with the three
\* drawn from wider sets than Spec can afford over several iterations, and
\* runs the iteration to its last ledger write.
SizerPrices == {5000000, 4321987, 10010000}

SizerBalances == {50000, 99990, 100000}

SizerResponses ==
    { Obj("none", d, Num(f), Num(l), Num(sl), Num(tp)) :
        d \in {"LONG", "SHORT", "NO_POSITION"},
        f \in {-10, 0, 5, 10, 37, 100, 150},
        l \in {5, 50, 250},
        sl \in {0, 5, 10, 15},
        tp \in {-10, 10, 20, 25} }

SizerInit ==
    /\ pc = "Parse"
    /\ iter = 1
    /\ current_timestamp = 1
    /\ current_price \in SizerPrices
    /\ available_balance \in SizerBalances
    /\ current_side = "none"
    /\ amount = 0
    /\ position_amts = {}
    /\ open_orders = 0
    /\ cancelled = 0
    /\ cancel_error = FALSE
    /\ multi_tf_data = NoData
    /\ news_headlines = 0
    /\ historical_performance = NoPerformance
    /\ ai_response_text \in SizerResponses
    /\ direction = ""
    /\ position_size_fraction = 0
    /\ leverage = 0
    /\ sl_percentage = 0
    /\ tp_percentage = 0
    /\ position_size_usdt = 0
    /\ btc_amount = 0
    /\ sl_price = 0
    /\ tp_price = 0
    /\ trades = <<>>
    /\ ai_analysis = <<>>
    /\ calls = <<>>
    /\ oracle_calls = 1
    /\ sleeps = <<SettleDelay>>
    /\ visited = {"FetchTicker", "GetAvailableBalance", "FetchPositions",
                  "CancelStaleOrders", "BuildSnapshot", "Decide"}
    /\ err = "none"

SizerNext ==
    \/ Parse
    \/ Validate
    \/ SaveNoTrade
    \/ SaveBelowMinimum
    \/ SetLeverage
    \/ MarketOrder
    \/ StopOrder
    \/ TakeProfitOrder
    \/ SaveTrade
    \/ SaveExecuted

SizerSpec == SizerInit /\ [][SizerNext]_vars

\* -------------------------------------------- the ledger with a history
\* LedgerSpec starts like SizerSpec, in an iteration whose answer has just
\* been received, but with a ledger that earlier iterations have filled:
\* n trades, alternately LONG and SHORT, stamped 1 .. n, each with its
\* TRADE_EXECUTED record.  It runs the iteration and the next one up to the
\* ledger read of the snapshot.
PriorTradeData(k) ==
    LET d == IF k % 2 = 1 THEN "LONG" ELSE "SHORT"
    IN  [timestamp |-> k,
         direction |-> d,
         entry_price |-> 5000000,
         position_size_usdt |-> PositionSize(100000, 50),
         btc_amount |-> BtcAmount(PositionSize(100000, 50), 5000000),
         leverage |-> 5,
         stop_loss_price |-> StopLossPrice(d, 5000000, 10),
         stop_loss_percentage |-> 10,
         take_profit_price |-> TakeProfitPrice(d, 5000000, 20),
         take_profit_percentage |-> 20,
         risk_reward_ratio |-> Ratio(20, 10),
         available_balance |-> 100000,
         conviction_level |-> 50,
         reasoning |-> "reasoning"]

PriorAnalysisData(k) ==
    [timestamp |-> k,
     current_price |-> 5000000,
     available_balance |-> 100000,
     direction |-> IF k % 2 = 1 THEN "LONG" ELSE "SHORT",
     position_size_fraction |-> Num(50),
     recommended_leverage |-> Num(5),
     stop_loss_percentage |-> Num(10),
     take_profit_percentage |-> Num(20),
     reasoning |-> "reasoning",
     action_taken |-> "TRADE_EXECUTED",
     market_condition |-> "Learned confidence"]

RECURSIVE PriorTrades(_)
PriorTrades(n) ==
    IF n = 0 THEN <<>>
    ELSE save_trade_to_db(PriorTrades(n - 1), PriorTradeData(n))

RECURSIVE PriorAnalysis(_)
PriorAnalysis(n) ==
    IF n = 0 THEN <<>>
    ELSE save_ai_analysis_to_db(PriorAnalysis(n - 1), PriorAnalysisData(n))

LedgerResponses ==
    { Obj("none", "LONG", Num(50), Num(50), Num(10), Num(20)),
      Obj("none", "SHORT", Num(150), Num(250), Num(15), Num(25)) }

LedgerInit ==
    /\ pc = "Parse"
    /\ iter = 1
    /\ \E n \in 0 .. MaxPriorTrades :
          /\ current_timestamp = n + 1
          /\ trades = PriorTrades(n)
          /\ ai_analysis = PriorAnalysis(n)
    /\ current_price \in Prices
    /\ available_balance \in Balances
    /\ current_side = "none"
    /\ amount = 0
    /\ position_amts = {}
    /\ open_orders = 0
    /\ cancelled = 0
    /\ cancel_error = FALSE
    /\ multi_tf_data = NoData
    /\ news_headlines = 0
    /\ historical_performance = NoPerformance
    /\ ai_response_text \in LedgerResponses
    /\ direction = ""
    /\ position_size_fraction = 0
    /\ leverage = 0
    /\ sl_percentage = 0
    /\ tp_percentage = 0
    /\ position_size_usdt = 0
    /\ btc_amount = 0
    /\ sl_price = 0
    /\ tp_price = 0
    /\ calls = <<>>
    /\ oracle_calls = 1
    /\ sleeps = <<SettleDelay>>
    /\ visited = {"FetchTicker", "GetAvailableBalance", "FetchPositions",
                  "CancelStaleOrders", "BuildSnapshot", "Decide"}
    /\ err = "none"

LedgerNext ==
    \/ Parse
    \/ Validate
    \/ SetLeverage
    \/ MarketOrder
    \/ StopOrder
    \/ TakeProfitOrder
    \/ SaveTrade
    \/ SaveExecuted
    \/ PrintStatistics
    \/ CooldownTrade
    \/ PollWait
    \/ FetchTicker
    \/ get_available_balance
    \/ FetchPositions
    \/ CancelStaleOrders
    \/ BuildSnapshot

LedgerSpec == LedgerInit /\ [][LedgerNext]_vars

TypeOK ==
    /\ pc \in {"FetchTicker", "GetAvailableBalance", "FetchPositions",
               "CancelStaleOrders", "BuildSnapshot", "Decide", "Parse",
               "Validate", "SaveSkipped", "SaveNoTrade", "SaveBelowMinimum",
               "CooldownContinue", "SetLeverage", "MarketOrder", "StopOrder",
               "TakeProfitOrder", "SaveTrade", "SaveExecuted",
               "PrintStatistics", "CooldownTrade", "PollWait", "Except",
               "Exited"}
    /\ iter \in 0..MaxIter
    /\ Len(trades) <= iter
    /\ Len(ai_analysis) <= iter

\* ------------------------------------------------------------ the claims
\* rows the current iteration wrote
TradesNow == {i \in DOMAIN trades : trades[i].timestamp = current_timestamp}
AnalysesNow ==
    {i \in DOMAIN ai_analysis :
        ai_analysis[i].timestamp = current_timestamp}

CallsOf(op) == {i \in DOMAIN calls : calls[i].op = op}

\* C1: the exchange requests of an iteration are a prefix of set_leverage,
\* market order (buy for LONG, sell for SHORT, btc_amount), STOP_MARKET at
\* sl_price, TAKE_PROFIT_MARKET at tp_price; both exit orders are on the
\* other side and carry the quantity of the entry order; a Trade row of the
\* iteration exists only once all four requests were made.
C1_OrderSequence ==
    /\ Len(calls) <= 4
    /\ Len(calls) >= 1 =>
         /\ calls[1].op = "set_leverage"
         /\ calls[1].leverage = leverage
    /\ Len(calls) >= 2 =>
         /\ calls[2].op = "MARKET"
         /\ calls[2].qty = btc_amount
         /\ \/ direction = "LONG" /\ calls[2].side = "buy"
            \/ direction = "SHORT" /\ calls[2].side = "sell"
    /\ Len(calls) >= 3 =>
         /\ calls[3].op = "STOP_MARKET"
         /\ calls[3].stopPrice = sl_price
         /\ calls[3].qty = calls[2].qty
         /\ calls[3].side \in {"buy", "sell"} \ {calls[2].side}
    /\ Len(calls) >= 4 =>
         /\ calls[4].op = "TAKE_PROFIT_MARKET"
         /\ calls[4].stopPrice = tp_price
         /\ calls[4].qty = calls[2].qty
         /\ calls[4].side \in {"buy", "sell"} \ {calls[2].side}
    /\ TradesNow # {} => Len(calls) = 4

C1_Witness ==
    /\ pc = "SaveExecuted"
    /\ direction = "SHORT"
    /\ Len(calls) = 4
    /\ calls[4].side = "buy"
    /\ TradesNow # {}

\* C3: a market entry order is submitted only in an iteration whose position
\* check showed no nonzero position on the symbol, at most once per
\* iteration; an iteration that saw a nonzero position executes none of the
\* statements from the cancelling of stale orders on.
AnalysisSteps ==
    {"CancelStaleOrders", "BuildSnapshot", "Decide", "Parse", "Validate",
     "SaveSkipped", "SaveNoTrade", "SaveBelowMinimum", "CooldownContinue",
     "SetLeverage", "MarketOrder", "StopOrder", "TakeProfitOrder",
     "SaveTrade", "SaveExecuted", "PrintStatistics", "CooldownTrade"}

C3_EntryOnlyWhenFlat ==
    /\ CallsOf("MARKET") # {} =>
         /\ "FetchPositions" \in visited
         /\ position_amts = {}
    /\ Cardinality(CallsOf("MARKET")) <= 1
    /\ position_amts # {} =>
         /\ pc \notin AnalysisSteps
         /\ visited \cap AnalysisSteps = {}
         /\ calls = <<>>
         /\ oracle_calls = 0

\* the first iteration was flat and entered SHORT; the second one sees the
\* position and idles
C3_Witness ==
    /\ iter = 2
    /\ position_amts = {-2}
    /\ pc = "PollWait"
    /\ Len(trades) = 1
    /\ trades[1].direction = "SHORT"

\* C4: whatever leverage the oracle recommends, the leverage of every
\* set_leverage request and of every Trade row is an integer in 1..20.
C4_LeverageBounded ==
    /\ \A i \in CallsOf("set_leverage") : calls[i].leverage \in 1..20
    /\ \A i \in DOMAIN trades : trades[i].leverage \in 1..20

C4_Witness ==
    /\ ai_response_text.leverage = Num(250)
    /\ TradesNow # {}
    /\ \A i \in TradesNow : trades[i].leverage = 20
    /\ calls[1].leverage = 20

\* the decision as parsed, before the validator changes it
Parsed == StripFence(ai_response_text)
ParsedOk == "Parse" \in visited /\ ParseError(Parsed) = "none"
ParsedNoTrade ==
    /\ ParsedOk
    /\ \/ ParsedDirection(Parsed) = "NO_POSITION"
       \/ Get(Parsed.size, 0).v <= 0

\* the iteration is over and none of its calls raised
EndedClean == pc = "FetchTicker" /\ iter > 0 /\ err = "none"

\* the only exception of the iteration is the ledger insert's
OnlyLedgerFault(step) ==
    err # "none" => err = "OperationalError" /\ step \in visited

\* C2 (as claimed): an iteration that submitted the market entry order has,
\* when it ends, submitted both exit orders and written exactly one Trade
\* row and exactly one TRADE_EXECUTED record.  Stated here for iterations
\* in which no exchange or ledger call failed, the weakest case the claim
\* covers.
C2_EntryIsPersisted ==
    (/\ pc = "FetchTicker"
     /\ CallsOf("MARKET") # {}
     /\ err \notin {"NetworkError", "OperationalError"}) =>
        /\ CallsOf("STOP_MARKET") # {}
        /\ CallsOf("TAKE_PROFIT_MARKET") # {}
        /\ Cardinality(TradesNow) = 1
        /\ Cardinality(AnalysesNow) = 1
        /\ \A i \in AnalysesNow :
             ai_analysis[i].action_taken = "TRADE_EXECUTED"

\* C5: a decision with direction NO_POSITION or fraction <= 0 makes no
\* exchange request and writes no Trade row; the iteration writes one
\* NO_TRADE record and goes to the cool-down wait, and leaves this path only
\* when the insert of that record raises.
C5_NoTradeVerdict ==
    ("Validate" \in visited /\ ParsedNoTrade) =>
        /\ calls = <<>>
        /\ TradesNow = {}
        /\ pc \in {"SaveNoTrade", "CooldownContinue", "FetchTicker", "Except"}
        /\ OnlyLedgerFault("SaveNoTrade")
        /\ \A i \in AnalysesNow : ai_analysis[i].action_taken = "NO_TRADE"
        /\ Cardinality(AnalysesNow) =
             IF pc = "SaveNoTrade" \/ err # "none" THEN 0 ELSE 1
        /\ EndedClean => sleeps = <<SettleDelay, Cooldown>>

C5_Witness ==
    /\ EndedClean
    /\ ParsedNoTrade
    /\ direction = "LONG"
    /\ position_size_fraction = 0
    /\ Cardinality(AnalysesNow) = 1

\* C6: with position_size_usdt = available_balance * clamped fraction, a
\* size below 100 writes one BELOW_MINIMUM record, no Trade row and makes
\* no exchange request; a size of exactly 100 or more goes on to order
\* placement; every Trade row has position_size_usdt >= 100.
Hundred == 100 * PriceScale * FracScale

C6_MinimumNotional ==
    /\ ("Validate" \in visited /\ ParsedOk /\ ~ParsedNoTrade) =>
         LET f == position_size_fraction
             size == available_balance * f
         IN  /\ f = ClampFraction(Get(Parsed.size, 0).v)
             /\ position_size_usdt = size
             /\ size < Hundred =>
                  /\ calls = <<>>
                  /\ TradesNow = {}
                  /\ pc \in {"SaveBelowMinimum", "CooldownContinue",
                             "FetchTicker", "Except"}
                  /\ OnlyLedgerFault("SaveBelowMinimum")
                  /\ \A i \in AnalysesNow :
                       ai_analysis[i].action_taken = "BELOW_MINIMUM"
                  /\ Cardinality(AnalysesNow) =
                       IF pc = "SaveBelowMinimum" \/ err # "none"
                       THEN 0 ELSE 1
             /\ size >= Hundred =>
                  /\ pc = "SetLeverage" \/ "SetLeverage" \in visited
                  /\ \A i \in AnalysesNow :
                       ai_analysis[i].action_taken # "BELOW_MINIMUM"
    /\ \A i \in DOMAIN trades : trades[i].position_size_usdt >= Hundred

C6_Witness ==
    /\ available_balance = 1000 * PriceScale
    /\ position_size_fraction = MinFraction
    /\ position_size_usdt = Hundred
    /\ \E i \in TradesNow : trades[i].position_size_usdt = Hundred

\* C7: a response that is not JSON writes one SKIPPED record with direction
\* ERROR, no Trade row, makes no exchange request and no second oracle
\* call, and goes to the 3-minute wait; the parse error never reaches the
\* top-level handler (only a raising insert of the record does).
C7_NonJsonIsSkipped ==
    (oracle_calls > 0 /\ ai_response_text.kind = "text") =>
        /\ oracle_calls = 1
        /\ calls = <<>>
        /\ TradesNow = {}
        /\ pc \in {"Parse", "SaveSkipped", "CooldownContinue", "FetchTicker",
                   "Except"}
        /\ OnlyLedgerFault("SaveSkipped")
        /\ \A i \in AnalysesNow :
             /\ ai_analysis[i].action_taken = "SKIPPED"
             /\ ai_analysis[i].direction = "ERROR"
        /\ Cardinality(AnalysesNow) =
             IF pc \in {"Parse", "SaveSkipped"} \/ err # "none" THEN 0 ELSE 1
        /\ EndedClean => sleeps = <<SettleDelay, Cooldown>>

C7_Witness ==
    /\ pc = "CooldownContinue"
    /\ ai_response_text.kind = "text"
    /\ \E i \in AnalysesNow : ai_analysis[i].action_taken = "SKIPPED"

\* C8 (as claimed): an iteration in which the oracle returned a response
\* has, when it ends, written exactly one AnalysisRecord, tagged
\* TRADE_EXECUTED, NO_TRADE, BELOW_MINIMUM or SKIPPED.  Stated here for
\* iterations in which no statement raised, the weakest case the claim
\* covers.
C8_OneRecordPerResponse ==
    (EndedClean /\ oracle_calls > 0) =>
        /\ Cardinality(AnalysesNow) = 1
        /\ \A i \in AnalysesNow :
             ai_analysis[i].action_taken \in
                {"TRADE_EXECUTED", "NO_TRADE", "BELOW_MINIMUM", "SKIPPED"}

\* C9: every error of an iteration is taken by the top-level handler, which
\* sleeps 5 seconds and starts the next iteration; the process never ends,
\* and from every state the loop comes back to the start of an iteration
\* until all MaxIter iterations have been started.
C9_LoopSurvivesErrors ==
    /\ [](pc # "Exited")
    /\ [](err # "none" => pc \in {"Except", "FetchTicker"})
    /\ [][pc = "Except" =>
            /\ pc' = "FetchTicker"
            /\ sleeps' = Append(sleeps, 5)]_vars
    /\ []<>(pc = "FetchTicker")
    /\ <>[](iter = MaxIter)

C9_Witness ==
    /\ pc = "FetchTicker"
    /\ err = "ZeroDivisionError"
    /\ sleeps = <<SettleDelay, Backoff>>

\* C10 (as claimed): a failed price or balance fetch aborts the iteration:
\* it is in the error path, the oracle is not called, nothing is written
\* to the ledger and no exchange request is made.
C10_FetchFailureAborts ==
    (visited # {} /\ (current_price = 0
                      \/ "get_available_balance.except" \in visited)) =>
        /\ pc \in {"Except", "FetchTicker"}
        /\ err # "none"
        /\ oracle_calls = 0
        /\ AnalysesNow = {}
        /\ TradesNow = {}
        /\ calls = <<>>

\* C11: an iteration whose position check saw a nonzero position on the
\* symbol cancels no order, builds no snapshot, calls neither the oracle
\* nor the exchange's set_leverage or order requests, leaves trades and
\* ai_analysis as they were, sleeps the one-second poll interval and
\* nothing else, and goes back to the start of the loop without an error.
C11_PositionFreezesIteration ==
    /\ [](position_amts # {} =>
            /\ current_side # "none"
            /\ visited \cap AnalysisSteps = {}
            /\ pc \in {"PollWait", "FetchTicker"}
            /\ open_orders = 0 /\ cancelled = 0
            /\ multi_tf_data = NoData
            /\ oracle_calls = 0
            /\ calls = <<>>
            /\ TradesNow = {} /\ AnalysesNow = {}
            /\ err = "none"
            /\ sleeps = IF pc = "FetchTicker" THEN <<1>> ELSE <<>>)
    /\ [][position_amts # {} =>
            /\ trades' = trades
            /\ ai_analysis' = ai_analysis]_vars

C11_Witness ==
    /\ pc = "FetchTicker"
    /\ position_amts = {2}
    /\ current_side = "long"
    /\ sleeps = <<1>>
    /\ iter = 2
    /\ Len(trades) = 1

\* C12: every Trade row has position_size_usdt = available_balance *
\* conviction_level, which is at most available_balance; the balance of
\* the row is the one the iteration fetched at its start and nothing
\* assigns it afterwards; when the sizing is evaluated the product of the
\* balance and the clamped fraction never exceeds the balance, so the
\* reduction to 95 % of the balance is never taken.
C12_SizeIsBalanceFraction ==
    /\ [](\A i \in DOMAIN trades :
            /\ trades[i].position_size_usdt =
                  trades[i].available_balance * trades[i].conviction_level
            /\ trades[i].position_size_usdt <=
                  trades[i].available_balance * FracScale)
    /\ [](\A i \in TradesNow :
            trades[i].available_balance = available_balance)
    /\ [][pc \notin {"FetchTicker", "GetAvailableBalance"} =>
            available_balance' = available_balance]_vars
    /\ []((pc = "Validate"
            /\ ~IsNoTrade(direction, position_size_fraction)) =>
              PositionSize(available_balance,
                           ClampFraction(position_size_fraction))
                <= available_balance * FracScale)
    /\ [](pc = "SetLeverage" =>
            position_size_usdt = available_balance * position_size_fraction)

C12_Witness ==
    /\ TradesNow # {}
    /\ Get(Parsed.size, 0).v = 150
    /\ \A i \in TradesNow :
          /\ trades[i].conviction_level = 100
          /\ trades[i].available_balance = 100000
          /\ trades[i].position_size_usdt = 100000 * 100

\* x is the multiple of 0.01 nearest to base + n / PctScale
NearestCent(x, base, n) == 2 * Abs((x - base) * PctScale - n) <= PctScale

\* sl and tp are the stop and take-profit prices the claim gives for a
\* trade in direction d entered at e with the percentages slp and tpp
ExitPricesAsClaimed(d, e, slp, tpp, sl, tp) ==
    /\ d \in {"LONG", "SHORT"}
    /\ d = "LONG" =>
         /\ NearestCent(sl, e, -(e * slp))
         /\ NearestCent(tp, e, e * tpp)
    /\ d = "SHORT" =>
         /\ NearestCent(sl, e, e * slp)
         /\ NearestCent(tp, e, -(e * tpp))

\* C13: the STOP_MARKET and TAKE_PROFIT_MARKET orders of an iteration carry
\* round2(e * (1 - sl_pct)) and round2(e * (1 + tp_pct)) for LONG and
\* round2(e * (1 + sl_pct)) and round2(e * (1 - tp_pct)) for SHORT, e being
\* the price of the iteration; the Trade row stores the same two prices
\* with e and the two percentages; at 50000 with 1 % and 2 % they are
\* 49500.00 and 51000.00 for LONG, 50500.00 and 49000.00 for SHORT.
C13_ExitPrices ==
    /\ Len(calls) >= 3 =>
         ExitPricesAsClaimed(direction, current_price, sl_percentage,
                             tp_percentage, calls[3].stopPrice, tp_price)
    /\ Len(calls) >= 4 => calls[4].stopPrice = tp_price
    /\ \A i \in TradesNow :
         /\ trades[i].entry_price = current_price
         /\ trades[i].stop_loss_price = calls[3].stopPrice
         /\ trades[i].take_profit_price = calls[4].stopPrice
    /\ \A i \in DOMAIN trades :
         ExitPricesAsClaimed(trades[i].direction, trades[i].entry_price,
                             trades[i].stop_loss_percentage,
                             trades[i].take_profit_percentage,
                             trades[i].stop_loss_price,
                             trades[i].take_profit_price)
    /\ \A i \in DOMAIN trades :
         (/\ trades[i].entry_price = 5000000
          /\ trades[i].stop_loss_percentage = 10
          /\ trades[i].take_profit_percentage = 20) =>
            /\ trades[i].direction = "LONG" =>
                 /\ trades[i].stop_loss_price = 4950000
                 /\ trades[i].take_profit_price = 5100000
            /\ trades[i].direction = "SHORT" =>
                 /\ trades[i].stop_loss_price = 5050000
                 /\ trades[i].take_profit_price = 4900000

\* a SHORT at 43219.87 with 1.5 % and 2.5 %: 43868.168 and 42139.373
C13_Witness ==
    /\ Len(trades) = 1
    /\ trades[1].direction = "SHORT"
    /\ trades[1].entry_price = 4321987
    /\ trades[1].stop_loss_percentage = 15
    /\ trades[1].take_profit_percentage = 25
    /\ trades[1].stop_loss_price = 4386817
    /\ trades[1].take_profit_price = 4213937
    /\ calls[3].stopPrice = 4386817
    /\ calls[4].stopPrice = 4213937

\* C14: in every state every Trade row has risk_reward_ratio =
\* take_profit_percentage / stop_loss_percentage of the same row (a
\* quotient with a nonzero divisor); the row written by the current
\* iteration stores the iteration's two percentages; and no step changes
\* the ratio or the percentages of a row that exists.
C14_RiskRewardRatio ==
    /\ [](\A i \in DOMAIN trades :
            /\ trades[i].stop_loss_percentage # 0
            /\ trades[i].risk_reward_ratio.den # 0
            /\ trades[i].risk_reward_ratio.num
                  * trades[i].stop_loss_percentage
               = trades[i].risk_reward_ratio.den
                  * trades[i].take_profit_percentage)
    /\ [](\A i \in TradesNow :
            /\ trades[i].stop_loss_percentage = sl_percentage
            /\ trades[i].take_profit_percentage = tp_percentage)
    /\ [][\A i \in DOMAIN trades :
            /\ i \in DOMAIN trades'
            /\ trades'[i].risk_reward_ratio = trades[i].risk_reward_ratio
            /\ trades'[i].stop_loss_percentage
                  = trades[i].stop_loss_percentage
            /\ trades'[i].take_profit_percentage
                  = trades[i].take_profit_percentage]_vars

\* a row with ratio 1/2 (2 % stop, 1 % target) followed, one iteration
\* later, by a row with ratio 2 (1 % stop, 2 % target)
C14_Witness ==
    /\ Len(trades) = 2
    /\ trades[1].risk_reward_ratio = [num |-> 1, den |-> 2]
    /\ trades[1].stop_loss_percentage = 20
    /\ trades[2].risk_reward_ratio = [num |-> 2, den |-> 1]
    /\ trades[2].take_profit_percentage = 20

\* table is what it was, or what it was with one row appended
Appended(before, after) ==
    /\ Len(after) \in {Len(before), Len(before) + 1}
    /\ \A i \in DOMAIN before : after[i] = before[i]

\* C15: every step of the loop leaves the rows of trades and of
\* ai_analysis as they are and adds at most one row at the end of each
\* table; every Trade row has status OPEN and NULL in exit_price,
\* exit_timestamp, profit_loss and profit_loss_percentage.
C15_AppendOnly ==
    /\ [][/\ Appended(trades, trades')
          /\ Appended(ai_analysis, ai_analysis')]_vars
    /\ [](\A i \in DOMAIN trades :
            /\ trades[i].id = i
            /\ trades[i].status = "OPEN"
            /\ trades[i].exit_price = Null
            /\ trades[i].exit_timestamp = Null
            /\ trades[i].profit_loss = Null
            /\ trades[i].profit_loss_percentage = Null)

\* two iterations, each of which appended a Trade row and its record
C15_Witness ==
    /\ Len(trades) = 2
    /\ Len(ai_analysis) = 2
    /\ trades[1].timestamp = 1
    /\ trades[2].timestamp = 2
    /\ ai_analysis[1].action_taken = "TRADE_EXECUTED"
    /\ ai_analysis[2].action_taken = "TRADE_EXECUTED"
    /\ trades[1].status = "OPEN"
    /\ trades[2].exit_price = Null

\* C16 (as claimed): an iteration without a position whose order
\* cancelling raised goes on to the data collection, and an iteration that
\* collected its data with one timeframe missing makes the oracle call
\* (which returns an answer or raises an API error).
C16_PartialDataReachesOracle ==
    [][/\ pc = "CancelStaleOrders" => pc' = "BuildSnapshot"
       /\ (/\ pc = "Decide"
           /\ Cardinality({tf \in Timeframes :
                              multi_tf_data[tf] = "failed"}) = 1) =>
              \/ pc' = "Parse" /\ oracle_calls' = oracle_calls + 1
              \/ err' = "APIError"]_vars

\* the records the current iteration wrote all have action a
RecordedOnly(a) ==
    /\ AnalysesNow # {}
    /\ \A i \in AnalysesNow : ai_analysis[i].action_taken = a

\* C17: when the loop is back at its head after an iteration, the
\* iteration has slept: 180 seconds if it ended with an analysis outcome
\* (after the 5 seconds that follow the order cancelling, and followed by
\* the 1-second poll sleep on the trade path), 1 second and nothing else if
\* it found a position, and 5 seconds and never 180 if an exception
\* reached the top-level handler.
C17_WaitBeforeNextCheck ==
    (pc = "FetchTicker" /\ iter > 0) =>
        /\ sleeps # <<>>
        /\ sleeps[Len(sleeps)] \in {180, 1, 5}
        /\ err # "none" =>
             /\ sleeps \in {<<5>>, <<5, 5>>}
             /\ position_amts = {}
        /\ (err = "none" /\ position_amts # {}) => sleeps = <<1>>
        /\ (err = "none" /\ position_amts = {}) =>
             sleeps \in {<<5, 180>>, <<5, 180, 1>>}
        /\ (err = "none" /\ RecordedOnly("TRADE_EXECUTED")) =>
             sleeps = <<5, 180, 1>>
        /\ (err = "none" /\ (\/ RecordedOnly("NO_TRADE")
                              \/ RecordedOnly("BELOW_MINIMUM")
                              \/ RecordedOnly("SKIPPED"))) =>
             sleeps = <<5, 180>>

\* a trade in the first iteration and, after its waits, a SKIPPED answer
\* in the second, which has slept its cool-down
C17_Witness ==
    /\ pc = "FetchTicker"
    /\ iter = 2
    /\ err = "none"
    /\ Len(trades) = 1
    /\ trades[1].timestamp = 1
    /\ RecordedOnly("SKIPPED")
    /\ sleeps = <<SettleDelay, Cooldown>>

\* the fractions the clamp is compared on, in hundredths: -0.10 .. 1.50
FractionRange == -10 .. 150

\* C18: for the fraction f of the oracle's answer, the clamp gives 0.1 for
\* f < 0.1, 1.0 for f > 1.0 and f otherwise, a value in [0.1, 1.0]; clamping
\* the result again changes nothing; no smaller fraction has a larger
\* clamp and no larger fraction a smaller one; the validator assigns the
\* clamp to position_size_fraction; and the conviction_level of every
\* Trade row is in [0.1, 1.0].
C18_FractionClamp ==
    LET f == Get(Parsed.size, 0).v
        c == ClampFraction(f)
    IN  /\ f \in FractionRange
        /\ c \in 10 .. 100
        /\ f < 10 => c = 10
        /\ f > 100 => c = 100
        /\ (10 <= f /\ f <= 100) => c = f
        /\ ClampFraction(c) = c
        /\ \A g \in FractionRange :
              /\ g <= f => ClampFraction(g) <= c
              /\ f <= g => c <= ClampFraction(g)
              /\ ClampFraction(ClampFraction(g)) = ClampFraction(g)
        /\ ("Validate" \in visited /\ ~ParsedNoTrade) =>
              position_size_fraction = c
        /\ \A i \in DOMAIN trades :
              /\ trades[i].conviction_level >= 10
              /\ trades[i].conviction_level <= 100

\* an answer of 0.05 traded with conviction_level 0.1
C18_Witness ==
    /\ Get(Parsed.size, 0).v = 5
    /\ position_size_fraction = 10
    /\ Len(trades) = 1
    /\ trades[1].conviction_level = 10

\* C19: the quantity of the entry order is the largest multiple of 0.001
\* whose value at the iteration's price does not exceed position_size_usdt
\* (the quotient truncated to three decimals, never rounded up); the exit
\* orders and the Trade row carry the same quantity; a balance of 500 with
\* fraction 1.0 at 50000 gives 0.01.
C19_QuantityIsTruncated ==
    /\ Len(calls) >= 2 =>
         /\ calls[2].qty = btc_amount
         /\ btc_amount >= 0
         /\ btc_amount * current_price
               <= position_size_usdt * (1000 \div FracScale)
         /\ (btc_amount + 1) * current_price
               > position_size_usdt * (1000 \div FracScale)
         /\ (/\ available_balance = 500 * PriceScale
              /\ position_size_fraction = FracScale
              /\ current_price = 50000 * PriceScale) => btc_amount = 10
    /\ \A i \in TradesNow :
         /\ trades[i].btc_amount = calls[2].qty
         /\ trades[i].btc_amount * trades[i].entry_price
               <= trades[i].position_size_usdt * (1000 \div FracScale)

\* 999.90 at 50000.00 is 0.019998 BTC: ordered as 0.019, not 0.020
C19_Witness ==
    /\ Len(trades) = 1
    /\ trades[1].position_size_usdt = 99990 * FracScale
    /\ trades[1].entry_price = 5000000
    /\ trades[1].btc_amount = 19
    /\ calls[2].qty = 19

\* the Trade rows a read of the ledger in this state returns
ReadNow == get_historical_performance(trades, ai_analysis).recent_trades

\* row holds, column by column, what trade_data held
ReturnsWritten(row, trade_data) ==
    \A col \in DOMAIN trade_data : row[col] = trade_data[col]

\* C20: once the iteration has written its Trade row, whatever the ledger
\* held before, a read of the recent trades returns a record with every
\* column of trade_data as it was written; and the read the next iteration
\* makes for its snapshot returns at most 20 records, the row written last
\* among them, unchanged.
C20_LedgerRoundTrip ==
    /\ TradesNow # {} =>
         \E i \in DOMAIN ReadNow :
            /\ ReturnsWritten(ReadNow[i], TradeData)
            /\ ReadNow[i].status = "OPEN"
    /\ pc = "Decide" =>
         /\ Len(historical_performance.recent_trades) <= 20
         /\ trades # <<>> =>
              \E i \in DOMAIN historical_performance.recent_trades :
                 historical_performance.recent_trades[i]
                    = trades[Len(trades)]
         /\ \A i \in DOMAIN historical_performance.recent_trades :
              \E j \in DOMAIN trades :
                 historical_performance.recent_trades[i] = trades[j]

\* the 22nd trade of a ledger, read back by the next iteration among the
\* 20 most recent
C20_Witness ==
    /\ pc = "Decide"
    /\ iter = 2
    /\ Len(trades) = 22
    /\ trades[22].timestamp = 22
    /\ trades[22].direction = "SHORT"
    /\ trades[22].conviction_level = 100
    /\ Len(historical_performance.recent_trades) = 20
    /\ historical_performance.recent_trades[1] = trades[22]
    /\ historical_performance.recent_trades[20] = trades[3]

\* C21 (as claimed): the market order and the two exit orders of an
\* iteration, which are placed only when position_size_usdt passed the
\* check against the 100 USDT minimum, carry a quantity above zero.
C21_QuantityIsPositive ==
    \A i \in DOMAIN calls :
        calls[i].op \in {"MARKET", "STOP_MARKET", "TAKE_PROFIT_MARKET"} =>
            /\ ~BelowMinimum(position_size_usdt)
            /\ calls[i].qty > 0

\* C22 (as claimed): the stop and take-profit prices of the exit orders of
\* an iteration, and of every Trade row, are on their sides of the entry
\* price: below and above it for LONG, above and below it for SHORT.
C22_ExitPricesStraddleEntry ==
    /\ Len(calls) >= 3 =>
         /\ direction = "LONG" => calls[3].stopPrice < current_price
         /\ direction = "SHORT" => calls[3].stopPrice > current_price
    /\ Len(calls) >= 4 =>
         /\ direction = "LONG" => calls[4].stopPrice > current_price
         /\ direction = "SHORT" => calls[4].stopPrice < current_price
    /\ \A i \in DOMAIN trades :
         /\ trades[i].direction = "LONG" =>
              /\ trades[i].stop_loss_price < trades[i].entry_price
              /\ trades[i].entry_price < trades[i].take_profit_price
         /\ trades[i].direction = "SHORT" =>
              /\ trades[i].take_profit_price < trades[i].entry_price
              /\ trades[i].entry_price < trades[i].stop_loss_price

\* the TRADE_EXECUTED records and, for a record, its Trade rows
Executed ==
    {i \in DOMAIN ai_analysis :
        ai_analysis[i].action_taken = "TRADE_EXECUTED"}

TradeOf(table, record) ==
    {j \in DOMAIN table :
        /\ table[j].timestamp = record.timestamp
        /\ table[j].direction = record.direction
        /\ Num(table[j].leverage) = record.recommended_leverage}

\* C23: in every state, whatever failed before, every TRADE_EXECUTED
\* record has exactly one Trade row with its timestamp, direction and
\* leverage, and different records have different rows, so there are never
\* more such records than Trade rows; the row is in the table before the
\* step that inserts the record; and a Trade row of the running iteration
\* without its record is what the state between the two inserts shows.
C23_RecordFollowsTrade ==
    /\ [](\A i \in Executed :
            Cardinality(TradeOf(trades, ai_analysis[i])) = 1)
    /\ [](\A i, k \in Executed :
            i # k => TradeOf(trades, ai_analysis[i])
                       # TradeOf(trades, ai_analysis[k]))
    /\ [](Cardinality(Executed) <= Len(trades))
    /\ [][\A i \in DOMAIN ai_analysis' :
            (/\ i \notin DOMAIN ai_analysis
             /\ ai_analysis'[i].action_taken = "TRADE_EXECUTED") =>
                /\ pc = "SaveExecuted"
                /\ trades' = trades
                /\ TradeOf(trades, ai_analysis'[i]) # {}]_vars
    /\ [](pc = "SaveExecuted" =>
            /\ TradesNow # {}
            /\ \A i \in Executed :
                  ai_analysis[i].timestamp # current_timestamp)

\* the first iteration wrote its Trade row and failed on the record's
\* insert; the second wrote both
C23_Witness ==
    /\ Len(trades) = 2
    /\ Len(ai_analysis) = 1
    /\ trades[1].timestamp = 1
    /\ trades[2].timestamp = 2
    /\ ai_analysis[1].action_taken = "TRADE_EXECUTED"
    /\ ai_analysis[1].timestamp = 2
    /\ ai_analysis[1].direction = trades[2].direction
    /\ ai_analysis[1].recommended_leverage = Num(trades[2].leverage)

====
